---- MODULE Spec2Model ----
(***************************************************************************)
(* Workplace compliance monitor: the POST /monitor-communication handler   *)
(* of src/app/main.py (asyncio.gather) and src/main.py (ThreadPoolExecutor),*)
(* the two detector adapters, risk fusion and the action policy.           *)
(*                                                                         *)
(* Strings that the code builds with f-strings are sequences of string     *)
(* pieces, so that "contains the label" and "prefix followed by message"   *)
(* are properties of the sequence.  The text of a message is represented   *)
(* by its length in characters: the code only forwards it to the external  *)
(* service, and validation looks at its length alone.                      *)
(***************************************************************************)
EXTENDS Integers, Sequences, FiniteSets, TLC

VARIABLES
    entry,      \* which entry point serves the request: "app" or "script"
    hpc,        \* position of the request handler
    body,       \* the JSON body received
    request,    \* the validated MonitorRequest handed to the handler
    dpc,        \* position of each detector invocation
    outcome,    \* what the external call of each detector did
    result,     \* the handler's result slot for each detector
    exc,        \* the exception raised inside the handler's try block
    response,   \* the HTTP response
    calls,      \* core functions invoked for this request
    call,       \* direct call of a pure function: function, arguments, value
    prev,       \* the direct call before it
    environ,    \* the OPENAI_API_KEY variable of the process environment
    get_response \* the response to the latest GET / or GET /health

vars == <<entry, hpc, body, request, dpc, outcome, result, exc, response,
          calls, call, prev, environ, get_response>>

handlerVars == <<entry, hpc, body, request, dpc, outcome, result, exc,
                 response, calls, environ, get_response>>

-----------------------------------------------------------------------------
(* Bounds *)

\* lengths tried around each limit of message_text: limit-Around..limit+Around
Around == 1

\* processing_time_ms is drawn from 0..MaxElapsedMs
MaxElapsedMs == 1

-----------------------------------------------------------------------------
(* Data model: src/app/models.py *)

None == [type |-> "NoneType"]

\* class SenderRole(str, Enum): member names
SenderRole ==
    {"CUSTOMER_SERVICE", "SALES", "ENGINEERING", "MANAGEMENT", "HR",
     "FINANCE", "OPERATIONS"}

\* sender_role.value: the display label of a member
SenderRoleValue(role) ==
    CASE role = "CUSTOMER_SERVICE" -> "Customer Service"
      [] role = "SALES"            -> "Sales"
      [] role = "ENGINEERING"      -> "Engineering"
      [] role = "MANAGEMENT"       -> "Management"
      [] role = "HR"               -> "HR"
      [] role = "FINANCE"          -> "Finance"
      [] role = "OPERATIONS"       -> "Operations"

\* class RiskLevel(str, Enum): member names, in declaration order
RiskLevel == {"SAFE", "LOW", "MEDIUM", "HIGH", "CRITICAL"}

\* Field(min_length=1, max_length=5000) of MonitorRequest.message_text
MinTextLen == 1
MaxTextLen == 5000

PIIDetectionResult(has_pii, pii_types, risk_level, explanation) ==
    [type |-> "PIIDetectionResult", flag |-> has_pii, types |-> pii_types,
     risk_level |-> risk_level, explanation |-> explanation]

ToxicityDetectionResult(is_toxic, toxicity_types, risk_level, explanation) ==
    [type |-> "ToxicityDetectionResult", flag |-> is_toxic,
     types |-> toxicity_types, risk_level |-> risk_level,
     explanation |-> explanation]

\* SenderRole(label): the member whose value is the label
SenderRoleOf(label) == CHOOSE role \in SenderRole : SenderRoleValue(role) = label

\* sender_role: SenderRole -- the label must be the value of a member
ValidSenderRole(b) ==
    /\ "sender_role" \in DOMAIN b
    /\ \E role \in SenderRole : SenderRoleValue(role) = b.sender_role

\* message_text with min_length only
ValidMessageText_nomax(b) ==
    /\ "message_text" \in DOMAIN b
    /\ b.message_text >= MinTextLen

\* message_text: str = Field(min_length=1, max_length=5000)
ValidMessageText(b) ==
    /\ "message_text" \in DOMAIN b
    /\ b.message_text >= MinTextLen
    /\ b.message_text <= MaxTextLen

\* pydantic validation of the body against MonitorRequest
ValidMonitorRequest(b) == ValidMessageText(b) /\ ValidSenderRole(b)

\* the MonitorRequest object built from a valid body
MonitorRequest(b) ==
    [message_text |-> b.message_text, sender_role |-> SenderRoleOf(b.sender_role)]

\* severity_score: int = Field(ge=0, le=100)
ValidSeverityScore(score) == score >= 0 /\ score <= 100

MonitorResponse(pii_result, toxicity_result, final_risk, severity_score, recommended_action, should_flag, processing_time_ms) ==
    [pii_detection |-> pii_result, toxicity_detection |-> toxicity_result,
     final_risk_level |-> final_risk, severity_score |-> severity_score,
     recommended_action |-> recommended_action, should_flag |-> should_flag,
     processing_time_ms |-> processing_time_ms]

-----------------------------------------------------------------------------
(* Risk fusion and action policy: src/app/services.py, src/main.py *)

\* the risk_scores dict of calculate_final_risk
risk_scores(level) ==
    CASE level = "SAFE"     -> 0
      [] level = "LOW"      -> 25
      [] level = "MEDIUM"   -> 50
      [] level = "HIGH"     -> 75
      [] level = "CRITICAL" -> 100

\* Python's max of two integers
max(a, b) == IF a >= b THEN a ELSE b

\* thresholds placed at the weights themselves
FinalRisk_exact(final_score) ==
    IF final_score >= 100 THEN "CRITICAL"
    ELSE IF final_score >= 75 THEN "HIGH"
    ELSE IF final_score >= 50 THEN "MEDIUM"
    ELSE IF final_score >= 25 THEN "LOW"
    ELSE "SAFE"

\* the if/elif chain that maps final_score to final_risk
FinalRisk(final_score) ==
    IF final_score >= 75 THEN "CRITICAL"
    ELSE IF final_score >= 50 THEN "HIGH"
    ELSE IF final_score >= 25 THEN "MEDIUM"
    ELSE IF final_score > 0 THEN "LOW"
    ELSE "SAFE"

\* final_score as the sum of the two scores
FinalScore_sum(pii_score, toxicity_score) == pii_score + toxicity_score

\* final_score as the PII score alone
FinalScore_pii(pii_score, toxicity_score) == pii_score

\* final_score = max(pii_score, toxicity_score)
FinalScore(pii_score, toxicity_score) == max(pii_score, toxicity_score)

\* pii_result.risk_level on None raises AttributeError
AttributeErrorMsg == "'NoneType' object has no attribute 'risk_level'"

\* does calculate_final_risk raise on these arguments
calculate_final_risk_raises(pii_result, toxicity_result) ==
    pii_result = None \/ toxicity_result = None

\* calculate_final_risk counting the PII level only when has_pii is set
calculate_final_risk_gated(pii_result, toxicity_result) ==
    LET pii_score      == IF pii_result.flag
                          THEN risk_scores(pii_result.risk_level) ELSE 0
        toxicity_score == risk_scores(toxicity_result.risk_level)
        final_score    == FinalScore(pii_score, toxicity_score)
    IN  <<FinalRisk(final_score), final_score>>

\* calculate_final_risk: the tuple (final_risk, final_score)
calculate_final_risk(pii_result, toxicity_result) ==
    LET pii_score      == risk_scores(pii_result.risk_level)
        toxicity_score == risk_scores(toxicity_result.risk_level)
        final_score    == FinalScore(pii_score, toxicity_score)
    IN  <<FinalRisk(final_score), final_score>>

\* get_recommended_action with the MEDIUM text not naming the role
get_recommended_action_norole(risk_level, sender_role) ==
    IF risk_level = "CRITICAL" THEN
        <<"IMMEDIATE ACTION REQUIRED: Delete message immediately, notify compliance team, suspend ",
          SenderRoleValue(sender_role),
          " account pending investigation, initiate incident response protocol">>
    ELSE IF risk_level = "HIGH" THEN
        <<"URGENT: Flag for immediate compliance review, notify ",
          SenderRoleValue(sender_role),
          " manager, require mandatory training, monitor future communications closely">>
    ELSE IF risk_level = "MEDIUM" THEN
        <<"WARNING: Log incident for audit trail, send automated warning to sender, escalate if pattern continues">>
    ELSE IF risk_level = "LOW" THEN
        <<"ADVISORY: Log for compliance records, no immediate action required, monitor for patterns">>
    ELSE
        <<"SAFE: No action required, message complies with policies">>

\* get_recommended_action: the f-string as the sequence of its pieces
get_recommended_action(risk_level, sender_role) ==
    IF risk_level = "CRITICAL" THEN
        <<"IMMEDIATE ACTION REQUIRED: Delete message immediately, notify compliance team, suspend ",
          SenderRoleValue(sender_role),
          " account pending investigation, initiate incident response protocol">>
    ELSE IF risk_level = "HIGH" THEN
        <<"URGENT: Flag for immediate compliance review, notify ",
          SenderRoleValue(sender_role),
          " manager, require mandatory training, monitor future communications closely">>
    ELSE IF risk_level = "MEDIUM" THEN
        <<"WARNING: Log incident for audit trail, send automated warning to ",
          SenderRoleValue(sender_role),
          ", escalate if pattern continues">>
    ELSE IF risk_level = "LOW" THEN
        <<"ADVISORY: Log for compliance records, no immediate action required, monitor for patterns">>
    ELSE
        <<"SAFE: No action required, message complies with policies">>

\* should_flag without MEDIUM
ShouldFlag_high(final_risk) == final_risk \in {"HIGH", "CRITICAL"}

\* should_flag = final_risk in [MEDIUM, HIGH, CRITICAL]
ShouldFlag(final_risk) == final_risk \in {"MEDIUM", "HIGH", "CRITICAL"}

-----------------------------------------------------------------------------
(* Values the external service can put into a parsed result *)

Flags == BOOLEAN

\* pii_types reported together with has_pii
PiiTypes(has_pii) == IF has_pii THEN <<"email">> ELSE <<>>

\* toxicity_types reported together with is_toxic
ToxicityTypes(is_toxic) == IF is_toxic THEN <<"profanity">> ELSE <<>>

\* the flag and the level are independent fields of the parsed result
ParsedPII ==
    {PIIDetectionResult(f, PiiTypes(f), l, <<"model explanation">>) :
        f \in Flags, l \in RiskLevel}

ParsedToxicity ==
    {ToxicityDetectionResult(f, ToxicityTypes(f), l, <<"model explanation">>) :
        f \in Flags, l \in RiskLevel}

-----------------------------------------------------------------------------
(* Direct calls of the pure functions *)

NoCall == [fn |-> "none"]

CallFuse(p, t) ==
    /\ prev' = call
    /\ call' = [fn |-> "calculate_final_risk", pii_result |-> p,
                toxicity_result |-> t, ret |-> calculate_final_risk(p, t)]
    /\ UNCHANGED handlerVars

CallRecommend(l, r) ==
    /\ prev' = call
    /\ call' = [fn |-> "get_recommended_action", risk_level |-> l,
                sender_role |-> r, ret |-> get_recommended_action(l, r)]
    /\ UNCHANGED handlerVars

-----------------------------------------------------------------------------
(* Detector adapters: src/app/services.py, src/main.py *)

Detectors == {"pii", "toxicity"}

\* ThreadPoolExecutor(max_workers=MAX_WORKERS) of src/main.py
MAX_WORKERS == 2

\* messages of the exceptions client.chat.completions.parse raises: network
\* error, timeout, content that does not parse into the response format
RaisedMessages ==
    {"Connection error.", "Request timed out.", "Invalid JSON in response"}

NoOutcome == [kind |-> "none"]

\* what one call of client.chat.completions.parse can do, hanging aside:
\* return a completion whose message is parsed, return a completion whose
\* message is a refusal (message.parsed is None), or raise
ExternalOutcomes(d) ==
    {[kind |-> "parsed", parsed |-> r] :
        r \in IF d = "pii" THEN ParsedPII ELSE ParsedToxicity}
    \cup {[kind |-> "refusal"]}
    \cup {[kind |-> "raise", msg |-> m] : m \in RaisedMessages}

\* response.choices[0].message.parsed
message_parsed(o) == IF o.kind = "parsed" THEN o.parsed ELSE None

\* detect_pii: the try returns message.parsed, the except the default
detect_pii(o) ==
    IF o.kind = "raise"
    THEN PIIDetectionResult(FALSE, <<>>, "SAFE",
                            <<"Error during PII detection: ", o.msg>>)
    ELSE message_parsed(o)

\* detect_toxicity: the try returns message.parsed, the except the default
detect_toxicity(o) ==
    IF o.kind = "raise"
    THEN ToxicityDetectionResult(FALSE, <<>>, "SAFE",
                                 <<"Error during toxicity detection ", o.msg>>)
    ELSE message_parsed(o)

detect(d, o) == IF d = "pii" THEN detect_pii(o) ELSE detect_toxicity(o)

-----------------------------------------------------------------------------
(* Request handler: src/app/main.py, src/main.py *)

NoResponse == [status |-> 0]
NoBody == [received |-> FALSE]

\* lengths of message_text around both limits
Lengths ==
    {n \in (MinTextLen - Around)..(MinTextLen + Around) : n >= 0}
    \cup (MaxTextLen - Around)..(MaxTextLen + Around)

Labels == {SenderRoleValue(r) : r \in SenderRole} \cup {"Intern"}

\* JSON bodies: both fields, or one of them missing
Bodies ==
    [message_text : Lengths, sender_role : Labels]
    \cup [message_text : Lengths]
    \cup [sender_role : Labels]

\* no GET request answered yet
NoGet == [path |-> "none"]

\* OPENAI_API_KEY: unset, set to the empty string, set to a key
Environs ==
    {[set |-> FALSE], [set |-> TRUE, value |-> ""],
     [set |-> TRUE, value |-> "sk-test"]}

\* the state of one request before it is received
InitRequest ==
    /\ entry \in {"app", "script"}
    /\ hpc = "idle"
    /\ body = NoBody
    /\ request = None
    /\ dpc = [d \in Detectors |-> "idle"]
    /\ outcome = [d \in Detectors |-> NoOutcome]
    /\ result = [d \in Detectors |-> None]
    /\ exc = None
    /\ response = NoResponse
    /\ calls = {}
    /\ call = NoCall
    /\ prev = NoCall
    /\ get_response = NoGet

\* monitor_communication never reads the environment: one value suffices
Init ==
    /\ InitRequest
    /\ environ = [set |-> TRUE, value |-> "sk-test"]

\* the framework validates the body against MonitorRequest and only then
\* calls monitor_communication(request); a body that fails gets 422
Receive(b) ==
    /\ hpc = "idle"
    /\ body' = b
    /\ IF ValidMonitorRequest(b)
       THEN /\ request' = MonitorRequest(b)
            /\ hpc' = "start"
            /\ UNCHANGED response
       ELSE /\ response' = [status |-> 422]
            /\ hpc' = "done"
            /\ UNCHANGED request
    /\ UNCHANGED <<entry, dpc, outcome, result, exc, calls, call, prev, environ,
                   get_response>>

\* src/app/main.py: asyncio.gather(detect_pii(..), detect_toxicity(..))
Gather ==
    /\ hpc = "start"
    /\ entry = "app"
    /\ dpc' = [d \in Detectors |-> "scheduled"]
    /\ calls' = calls \cup {"detect_pii", "detect_toxicity"}
    /\ hpc' = "await_gather"
    /\ UNCHANGED <<entry, body, request, outcome, result, exc, response,
                   call, prev, environ,
                   get_response>>

\* done as soon as one awaitable is done
GatherDone_first == \E d \in Detectors : dpc[d] = "returned"

\* the gather future is done when every awaitable it was given is done
GatherDone == \A d \in Detectors : dpc[d] = "returned"

\* pii_result, toxicity_result = await asyncio.gather(...)
AwaitGather ==
    /\ hpc = "await_gather"
    /\ GatherDone
    /\ hpc' = "orchestrate"
    /\ UNCHANGED <<entry, body, request, dpc, outcome, result, exc, response,
                   calls, call, prev, environ,
                   get_response>>

\* src/main.py: pii_future = executor.submit(detect_pii, ..)
SubmitPii ==
    /\ hpc = "start"
    /\ entry = "script"
    /\ dpc' = [dpc EXCEPT !["pii"] = "scheduled"]
    /\ calls' = calls \cup {"detect_pii"}
    /\ hpc' = "submit_toxicity"
    /\ UNCHANGED <<entry, body, request, outcome, result, exc, response,
                   call, prev, environ,
                   get_response>>

\* src/main.py: toxicity_future = executor.submit(detect_toxicity, ..)
SubmitToxicity ==
    /\ hpc = "submit_toxicity"
    /\ dpc' = [dpc EXCEPT !["toxicity"] = "scheduled"]
    /\ calls' = calls \cup {"detect_toxicity"}
    /\ hpc' = "pii_future_result"
    /\ UNCHANGED <<entry, body, request, outcome, result, exc, response,
                   call, prev, environ,
                   get_response>>

\* result(timeout) that gives up on a future still running
FutureDone_timeout(d) == dpc[d] \in {"calling", "returned"}

\* future.result() returns once the future is done
FutureDone(d) == dpc[d] = "returned"

\* src/main.py: pii_result = pii_future.result()
PiiFutureResult ==
    /\ hpc = "pii_future_result"
    /\ FutureDone("pii")
    /\ hpc' = "toxicity_future_result"
    /\ UNCHANGED <<entry, body, request, dpc, outcome, result, exc, response,
                   calls, call, prev, environ,
                   get_response>>

\* src/main.py: toxicity_result = toxicity_future.result(), then the with
\* block ends (executor.shutdown(wait=True))
ToxicityFutureResult ==
    /\ hpc = "toxicity_future_result"
    /\ FutureDone("toxicity")
    /\ hpc' = "orchestrate"
    /\ UNCHANGED <<entry, body, request, dpc, outcome, result, exc, response,
                   calls, call, prev, environ,
                   get_response>>

\* one detector at a time: a scheduled one waits while the other is calling
CanStart_serial(d) == \A e \in Detectors : dpc[e] # "calling"

\* a scheduled detector starts: the event loop runs the task, or a worker
\* thread of the pool (at most MAX_WORKERS of them) takes the work item
CanStart(d) ==
    \/ entry = "app"
    \/ Cardinality({e \in Detectors : dpc[e] = "calling"}) < MAX_WORKERS

StartDetector(d) ==
    /\ dpc[d] = "scheduled"
    /\ CanStart(d)
    /\ dpc' = [dpc EXCEPT ![d] = "calling"]
    /\ UNCHANGED <<entry, hpc, body, request, outcome, result, exc, response,
                   calls, call, prev, environ,
                   get_response>>

\* the external call of detector d ends with outcome o and the detector
\* returns into its own result slot
DetectorReturn(d, o) ==
    /\ dpc[d] = "calling"
    /\ outcome' = [outcome EXCEPT ![d] = o]
    /\ result' = [result EXCEPT ![d] = detect(d, o)]
    /\ dpc' = [dpc EXCEPT ![d] = "returned"]
    /\ UNCHANGED <<entry, hpc, body, request, exc, response, calls, call,
                   prev, environ,
                   get_response>>

AttributeError == [type |-> "AttributeError", msg |-> AttributeErrorMsg]

ValidationError ==
    [type |-> "ValidationError", msg |-> "1 validation error for MonitorResponse"]

\* the rest of the try block: fusion, action, should_flag, elapsed time,
\* MonitorResponse; ms is the elapsed time measured
Orchestrate(ms) ==
    /\ hpc = "orchestrate"
    /\ IF calculate_final_risk_raises(result["pii"], result["toxicity"])
       THEN /\ exc' = AttributeError
            /\ calls' = calls \cup {"calculate_final_risk"}
            /\ hpc' = "except"
            /\ UNCHANGED response
       ELSE LET fused == calculate_final_risk(result["pii"], result["toxicity"])
                final_risk == fused[1]
                severity_score == fused[2]
                recommended_action ==
                    get_recommended_action(final_risk, request.sender_role)
                should_flag == ShouldFlag(final_risk)
            IN  /\ calls' = calls \cup {"calculate_final_risk",
                                        "get_recommended_action"}
                /\ IF ValidSeverityScore(severity_score)
                   THEN /\ response' =
                            [status |-> 200,
                             body |-> MonitorResponse(result["pii"],
                                        result["toxicity"], final_risk,
                                        severity_score, recommended_action,
                                        should_flag, ms)]
                        /\ hpc' = "done"
                        /\ UNCHANGED exc
                   ELSE /\ exc' = ValidationError
                        /\ hpc' = "except"
                        /\ UNCHANGED response
    /\ UNCHANGED <<entry, body, request, dpc, outcome, result, call, prev, environ,
                   get_response>>

\* the 500 response without the failure message
HTTPException500_nomsg(e) ==
    [status |-> 500, detail |-> <<"Compliance monitoring failed: ">>]

\* HTTPException(status_code=500, detail=f"Compliance monitoring failed: {str(e)}")
HTTPException500(e) ==
    [status |-> 500, detail |-> <<"Compliance monitoring failed: ", e.msg>>]

\* except Exception as e: raise HTTPException(...)
Except ==
    /\ hpc = "except"
    /\ response' = HTTPException500(exc)
    /\ hpc' = "done"
    /\ UNCHANGED <<entry, body, request, dpc, outcome, result, exc, calls,
                   call, prev, environ,
                   get_response>>

Next ==
    \/ \E b \in Bodies : Receive(b)
    \/ Gather
    \/ AwaitGather
    \/ SubmitPii
    \/ SubmitToxicity
    \/ PiiFutureResult
    \/ ToxicityFutureResult
    \/ \E d \in Detectors : StartDetector(d)
    \/ \E d \in Detectors : \E o \in ExternalOutcomes(d) : DetectorReturn(d, o)
    \/ \E ms \in 0..MaxElapsedMs : Orchestrate(ms)
    \/ Except

Spec == Init /\ [][Next]_vars

\* the steps of the handler itself
HandlerNext ==
    \/ Gather
    \/ AwaitGather
    \/ SubmitPii
    \/ SubmitToxicity
    \/ PiiFutureResult
    \/ ToxicityFutureResult
    \/ \E ms \in 0..MaxElapsedMs : Orchestrate(ms)
    \/ Except

\* the event loop and the thread scheduler run what is runnable: the handler
\* when it can step, a scheduled detector when it can start.  Nothing makes
\* the external call of a detector return.
LiveSpec ==
    /\ Spec
    /\ WF_vars(HandlerNext)
    /\ \A d \in Detectors : WF_vars(StartDetector(d))

-----------------------------------------------------------------------------
(* GET / and GET /health: src/app/main.py, src/main.py *)

\* MODEL_NAME = "gpt-4o-mini"
MODEL_NAME == "gpt-4o-mini"

\* os.getenv("OPENAI_API_KEY"): the string, or None when the variable is unset
getenv(env) == IF env.set THEN [type |-> "str", value |-> env.value] ELSE None

\* a test for None in place of truthiness
bool_notnone(x) == x # None

\* bool(x) of None or a string: false for None and for the empty string
bool(x) == IF x = None THEN FALSE ELSE x.value # ""

\* root(): the service information, answered 200
Root ==
    /\ get_response' =
          [path |-> "/", status |-> 200,
           body |-> [service |-> "AI Compliance Monitor API",
                     status |-> "operational",
                     version |-> "1.0.0",
                     endpoints |-> [monitor |-> "/monitor-communication",
                                    health |-> "/health", docs |-> "/docs"],
                     description |-> "Production-grade compliance monitoring for workplace communications"]]
    /\ UNCHANGED <<entry, hpc, body, request, dpc, outcome, result, exc,
                   response, calls, call, prev, environ>>

\* health_check(): answered 200; src/main.py also reports max_workers
HealthCheck ==
    /\ get_response' =
          [path |-> "/health", status |-> 200,
           body |-> IF entry = "app"
                    THEN [status |-> "healthy", model |-> MODEL_NAME,
                          api_key_configured |-> bool(getenv(environ))]
                    ELSE [status |-> "healthy", model |-> MODEL_NAME,
                          max_workers |-> MAX_WORKERS,
                          api_key_configured |-> bool(getenv(environ))]]
    /\ UNCHANGED <<entry, hpc, body, request, dpc, outcome, result, exc,
                   response, calls, call, prev, environ>>

\* the service with any environment, GET requests at any time
ServiceInit == InitRequest /\ environ \in Environs

ServiceNext == Next \/ Root \/ HealthCheck

ServiceSpec == ServiceInit /\ [][ServiceNext]_vars

-----------------------------------------------------------------------------
(* Two requests side by side *)

\* parsed results, and one more of each kind with another explanation
PairPII ==
    ParsedPII \cup
    {PIIDetectionResult(TRUE, <<"email">>, l, <<"other explanation">>) :
        l \in RiskLevel}

PairToxicity ==
    ParsedToxicity \cup
    {ToxicityDetectionResult(TRUE, <<"profanity">>, l, <<"other explanation">>) :
        l \in RiskLevel}

\* validated requests: the shortest and the longest text, any role
PairRequests ==
    [message_text : {MinTextLen, MaxTextLen}, sender_role : SenderRole]

\* the try block of monitor_communication from the two results on, when
\* nothing raises: the MonitorResponse returned
Assemble(pii_result, toxicity_result, req, ms) ==
    LET fused == calculate_final_risk(pii_result, toxicity_result)
        final_risk == fused[1]
        severity_score == fused[2]
        recommended_action == get_recommended_action(final_risk, req.sender_role)
        should_flag == ShouldFlag(final_risk)
    IN  MonitorResponse(pii_result, toxicity_result, final_risk,
                        severity_score, recommended_action, should_flag, ms)

\* the results and requests the next request of a pair may carry: any for
\* the first request; for the second the levels and the role of the first,
\* all else free
NextPII ==
    IF call = NoCall THEN PairPII
    ELSE {p \in PairPII : p.risk_level = call.pii_result.risk_level}

NextToxicity ==
    IF call = NoCall THEN PairToxicity
    ELSE {t \in PairToxicity : t.risk_level = call.toxicity_result.risk_level}

NextRequests ==
    IF call = NoCall THEN PairRequests
    ELSE {req \in PairRequests : req.sender_role = call.request.sender_role}

\* one request served with detector results p and t
CallMonitor(p, t, req, ms) ==
    /\ prev' = call
    /\ call' = [fn |-> "monitor_communication", pii_result |-> p,
                toxicity_result |-> t, request |-> req,
                ret |-> Assemble(p, t, req, ms)]
    /\ UNCHANGED handlerVars

\* at most two requests
PairNext ==
    /\ prev = NoCall
    /\ \E p \in NextPII, t \in NextToxicity, req \in NextRequests,
          ms \in 0..MaxElapsedMs : CallMonitor(p, t, req, ms)

PairInit == Init /\ entry = "app"

PairSpec == PairInit /\ [][PairNext]_vars

UnitNext ==
    \/ \E p \in ParsedPII, t \in ParsedToxicity : CallFuse(p, t)
    \/ \E l \in RiskLevel, r \in SenderRole : CallRecommend(l, r)

UnitInit == Init /\ entry = "app"

UnitSpec == UnitInit /\ [][UnitNext]_vars

-----------------------------------------------------------------------------
(* Properties *)

\* position of a level in the order SAFE < LOW < MEDIUM < HIGH < CRITICAL
Rank(level) ==
    CASE level = "SAFE"     -> 0
      [] level = "LOW"      -> 1
      [] level = "MEDIUM"   -> 2
      [] level = "HIGH"     -> 3
      [] level = "CRITICAL" -> 4

Higher(a, b) == IF Rank(a) >= Rank(b) THEN a ELSE b

\* the weights as the specification lists them
Weight(level) ==
    CASE level = "SAFE"     -> 0
      [] level = "LOW"      -> 25
      [] level = "MEDIUM"   -> 50
      [] level = "HIGH"     -> 75
      [] level = "CRITICAL" -> 100

IsFuse(c) == c.fn = "calculate_final_risk"
IsRecommend(c) == c.fn = "get_recommended_action"

\* C1: the level calculate_final_risk returns is the higher of the two input
\* levels (so fusing a level with SAFE or with itself returns that level).
C1_FusedLevelIsHigherInput ==
    IsFuse(call) =>
        call.ret[1] = Higher(call.pii_result.risk_level,
                             call.toxicity_result.risk_level)

\* C2: fuse(SAFE, SAFE) = (SAFE, 0), fuse(CRITICAL, SAFE) = (CRITICAL, 100),
\* fuse(LOW, MEDIUM) = (MEDIUM, 50) and fuse(HIGH, MEDIUM) = (HIGH, 75).
C2_FuseExamples ==
    IsFuse(call) =>
        LET a == call.pii_result.risk_level
            b == call.toxicity_result.risk_level
        IN  /\ (a = "SAFE" /\ b = "SAFE") => call.ret = <<"SAFE", 0>>
            /\ (a = "CRITICAL" /\ b = "SAFE") => call.ret = <<"CRITICAL", 100>>
            /\ (a = "LOW" /\ b = "MEDIUM") => call.ret = <<"MEDIUM", 50>>
            /\ (a = "HIGH" /\ b = "MEDIUM") => call.ret = <<"HIGH", 75>>

\* the level the thresholds give a score
ThresholdImage(score, level) ==
    /\ (score >= 75) => level = "CRITICAL"
    /\ (score >= 50 /\ score < 75) => level = "HIGH"
    /\ (score >= 25 /\ score < 50) => level = "MEDIUM"
    /\ (score > 0 /\ score < 25) => level = "LOW"
    /\ (score <= 0) => level = "SAFE"

C4_FuseCommutative ==
    (/\ IsFuse(call) /\ IsFuse(prev)
     /\ call.pii_result.risk_level = prev.toxicity_result.risk_level
     /\ call.toxicity_result.risk_level = prev.pii_result.risk_level)
        => call.ret = prev.ret

\* C4 happens: (MEDIUM, CRITICAL) right after (CRITICAL, MEDIUM)
C4_Witness ==
    /\ IsFuse(call) /\ IsFuse(prev)
    /\ prev.pii_result.risk_level = "CRITICAL"
    /\ prev.toxicity_result.risk_level = "MEDIUM"
    /\ call.pii_result.risk_level = "MEDIUM"
    /\ call.toxicity_result.risk_level = "CRITICAL"
    /\ call.ret = <<"CRITICAL", 100>>

\* C5: in every 200 response should_flag is true iff final_risk_level is
\* MEDIUM, HIGH or CRITICAL, and false iff it is SAFE or LOW.
C5_ShouldFlagIffMediumOrAbove ==
    response.status = 200 =>
        /\ response.body.should_flag = TRUE
              <=> response.body.final_risk_level \in {"MEDIUM", "HIGH", "CRITICAL"}
        /\ response.body.should_flag = FALSE
              <=> response.body.final_risk_level \in {"SAFE", "LOW"}

\* C5 happens: a 200 response that is flagged at level MEDIUM
C5_Witness ==
    /\ response.status = 200
    /\ response.body.final_risk_level = "MEDIUM"
    /\ response.body.should_flag = TRUE

Contains(text, piece) == \E i \in 1..Len(text) : text[i] = piece

\* C6: get_recommended_action returns a text for every level and role; for
\* CRITICAL, HIGH and MEDIUM the text contains the role's display label;
\* for SAFE the text is the same whatever the role.
C6_ActionNamesRole ==
    IsRecommend(call) =>
        /\ call.ret \in Seq(STRING)
        /\ Len(call.ret) > 0
        /\ call.risk_level \in {"CRITICAL", "HIGH", "MEDIUM"}
              => Contains(call.ret, SenderRoleValue(call.sender_role))
        /\ (call.risk_level = "SAFE" /\ IsRecommend(prev)
                /\ prev.risk_level = "SAFE")
              => call.ret = prev.ret

\* C6 happens: MEDIUM for Customer Service names the role, after a SAFE call
C6_Witness ==
    /\ IsRecommend(call) /\ IsRecommend(prev)
    /\ call.risk_level = "MEDIUM"
    /\ call.sender_role = "CUSTOMER_SERVICE"
    /\ Contains(call.ret, "Customer Service")
    /\ prev.risk_level = "SAFE"

\* the seven labels a request may carry
RoleLabels ==
    {"Customer Service", "Sales", "Engineering", "Management", "HR",
     "Finance", "Operations"}

\* a body that must be rejected
InvalidBody(b) ==
    \/ "message_text" \notin DOMAIN b
    \/ "sender_role" \notin DOMAIN b
    \/ b.message_text < 1
    \/ b.message_text > 5000
    \/ b.sender_role \notin RoleLabels

Received == body # NoBody

\* C7: whatever the external call did, a detector that has returned handed
\* back a well-formed result of its own type; if the call did not succeed
\* the result has flag false, no categories and level SAFE; and a validated
\* request that is done has a 200 response.
C7_DetectorsFailOpen ==
    /\ \A d \in Detectors :
          dpc[d] = "returned" =>
              /\ result[d].type = (IF d = "pii" THEN "PIIDetectionResult"
                                   ELSE "ToxicityDetectionResult")
              /\ outcome[d].kind # "parsed" =>
                    /\ result[d].flag = FALSE
                    /\ result[d].types = <<>>
                    /\ result[d].risk_level = "SAFE"
    /\ (hpc = "done" /\ Received /\ ~InvalidBody(body)) => response.status = 200

\* C8: fusion, action selection and the response of a validated request
\* come only after both detectors have returned, and a 200 response
\* carries both results.
C8_NoResponseBeforeBothResults ==
    /\ (\/ response.status \in {200, 500}
        \/ hpc \in {"orchestrate", "except"}
        \/ "calculate_final_risk" \in calls
        \/ "get_recommended_action" \in calls)
          => \A d \in Detectors : dpc[d] = "returned"
    /\ response.status = 200 =>
          /\ response.body.pii_detection = result["pii"]
          /\ response.body.toxicity_detection = result["toxicity"]
          /\ response.body.pii_detection.type = "PIIDetectionResult"
          /\ response.body.toxicity_detection.type = "ToxicityDetectionResult"

\* C8 happens: a 200 response with both results in it
C8_Witness ==
    /\ response.status = 200
    /\ entry = "app"
    /\ response.body.pii_detection.risk_level = "HIGH"
    /\ response.body.toxicity_detection.risk_level = "LOW"

\* C9: a request that fails validation is answered 422 and nothing of the
\* core is invoked for it: no detector, no fusion, no action policy.
C9_InvalidRequestNeverReachesCore ==
    (Received /\ InvalidBody(body)) =>
        /\ hpc = "done"
        /\ response = [status |-> 422]
        /\ calls = {}
        /\ \A d \in Detectors : dpc[d] = "idle" /\ result[d] = None

\* C9 happens: a body with sender_role "Intern" was answered 422
C9_Witness ==
    /\ Received
    /\ "sender_role" \in DOMAIN body
    /\ body.sender_role = "Intern"
    /\ "message_text" \in DOMAIN body
    /\ body.message_text = 1
    /\ response.status = 422

\* C10: a validated request ends in a 200 MonitorResponse when the try
\* block raised nothing, and otherwise in a 500 whose detail is
\* "Compliance monitoring failed: " followed by the message of the
\* exception; before the handler is done there is no response.
C10_ExceptionBecomes500 ==
    (Received /\ ~InvalidBody(body)) =>
        /\ hpc = "done" =>
              \/ response.status = 200 /\ exc = None
              \/ /\ response.status = 500
                 /\ exc # None
                 /\ response.detail = <<"Compliance monitoring failed: ", exc.msg>>
        /\ hpc # "done" => response = NoResponse
        /\ exc # None => hpc \in {"except", "done"}

\* C10 happens: a 500 response for a validated request
C10_Witness ==
    /\ Received /\ ~InvalidBody(body)
    /\ hpc = "done"
    /\ response.status = 500
    /\ response.detail =
          <<"Compliance monitoring failed: ",
            "'NoneType' object has no attribute 'risk_level'">>

\* positions where the handler waits for detector results
Waiting == hpc \in {"await_gather", "pii_future_result", "toxicity_future_result"}

\* a step that touches detector d
Touches(d) ==
    \/ dpc'[d] # dpc[d]
    \/ outcome'[d] # outcome[d]
    \/ result'[d] # result[d]

\* C11: the two detector invocations of a request are concurrent and
\* independent: both are issued before the handler waits on either; a
\* scheduled detector can start and a calling one can return whatever the
\* other is doing; and a step of a running detector writes its own position,
\* outcome and result slot only.
C11_DetectorsIndependent ==
    /\ [](Waiting => /\ \A d \in Detectors : dpc[d] # "idle"
                     /\ {"detect_pii", "detect_toxicity"} \subseteq calls)
    /\ [](\A d \in Detectors :
            /\ dpc[d] = "scheduled" => ENABLED StartDetector(d)
            /\ dpc[d] = "calling" =>
                  ENABLED (\E o \in ExternalOutcomes(d) : DetectorReturn(d, o)))
    /\ [][\A d \in Detectors :
            (dpc[d] \in {"scheduled", "calling"} /\ Touches(d)) =>
                \A e \in Detectors \ {d} :
                    /\ dpc'[e] = dpc[e]
                    /\ outcome'[e] = outcome[e]
                    /\ result'[e] = result[e]]_vars

\* C11 happens: on the thread pool, toxicity (submitted second) has returned
\* while PII is still calling and the handler waits
C11_Witness ==
    /\ entry = "script"
    /\ hpc = "pii_future_result"
    /\ dpc["pii"] = "calling"
    /\ dpc["toxicity"] = "returned"
    /\ result["pii"] = None
    /\ result["toxicity"] # None

Validated == Received /\ ~InvalidBody(body)

Responded == response # NoResponse

BothReturned == \A d \in Detectors : dpc[d] = "returned"

\* C12: there is no timeout: a validated request has a response only if
\* both detectors have returned (so while one of them has not, there is
\* none, even if the other has), and once both have returned it eventually
\* gets one.
C12_RespondsIffBothReturn ==
    /\ []((Validated /\ Responded) => BothReturned)
    /\ (Validated /\ BothReturned) ~> Responded

\* C12 happens: PII has returned, toxicity is still calling, the handler
\* waits in gather and there is no response
C12_Witness ==
    /\ entry = "app"
    /\ Validated
    /\ hpc = "await_gather"
    /\ dpc["pii"] = "returned"
    /\ dpc["toxicity"] = "calling"
    /\ ~Responded

\* C13: GET / and GET /health can be answered in every state and are always
\* answered 200: / with status "operational", /health with status "healthy"
\* and api_key_configured true exactly when OPENAI_API_KEY is set to a
\* non-empty value, whatever the detectors are doing.
C13_InfoEndpointsAlways200 ==
    /\ ENABLED Root
    /\ ENABLED HealthCheck
    /\ get_response.path = "/" =>
          /\ get_response.status = 200
          /\ get_response.body.status = "operational"
    /\ get_response.path = "/health" =>
          /\ get_response.status = 200
          /\ get_response.body.status = "healthy"
          /\ get_response.body.api_key_configured = TRUE
                <=> (environ.set /\ environ.value # "")

\* C13 happens: /health says the key is not configured (it is set, but
\* empty) after a request whose detectors both failed ended in 200
C13_Witness ==
    /\ get_response.path = "/health"
    /\ get_response.body.api_key_configured = FALSE
    /\ environ = [set |-> TRUE, value |-> ""]
    /\ response.status = 200
    /\ \A d \in Detectors : outcome[d].kind = "raise"

\* the text recommended for level LOW
AdvisoryText ==
    <<"ADVISORY: Log for compliance records, no immediate action required, monitor for patterns">>

IsMonitor(c) == c.fn = "monitor_communication"

\* C15: two requests whose detector results have the same pair of risk
\* levels and whose sender role is the same get the same final_risk_level,
\* severity_score, recommended_action and should_flag, whatever the flags,
\* category lists, explanations and message text are.
C15_FusedOutcomeDependsOnLevelsAndRole ==
    (/\ IsMonitor(call) /\ IsMonitor(prev)
     /\ call.pii_result.risk_level = prev.pii_result.risk_level
     /\ call.toxicity_result.risk_level = prev.toxicity_result.risk_level
     /\ call.request.sender_role = prev.request.sender_role)
        => /\ call.ret.final_risk_level = prev.ret.final_risk_level
           /\ call.ret.severity_score = prev.ret.severity_score
           /\ call.ret.recommended_action = prev.ret.recommended_action
           /\ call.ret.should_flag = prev.ret.should_flag

\* C15 happens: has_pii and is_toxic are true at level SAFE and the response
\* is not flagged, as for the request before it with both flags false and
\* another text
C15_Witness ==
    /\ IsMonitor(call) /\ IsMonitor(prev)
    /\ call.pii_result.risk_level = "SAFE"
    /\ call.toxicity_result.risk_level = "SAFE"
    /\ call.ret.pii_detection.flag = TRUE
    /\ call.ret.toxicity_detection.flag = TRUE
    /\ call.ret.pii_detection.explanation = <<"other explanation">>
    /\ call.ret.should_flag = FALSE
    /\ prev.pii_result.flag = FALSE
    /\ prev.toxicity_result.flag = FALSE
    /\ prev.request.message_text # call.request.message_text
    /\ prev.request.sender_role = call.request.sender_role
    /\ prev.ret.should_flag = FALSE

====
